---- MODULE Spec2Model ----
(***************************************************************************)
(* A model of mcp-pr-reviewer: the GitHub client functions of              *)
(* github_integration.py, the MCP server of pr_analyzer.py (startup, the   *)
(* four tools, the resource-method handler, run) and the command-line      *)
(* script test_pr_review.py.  One behaviour is one run of one of the two   *)
(* programs; the remote services are the environment, whose answers are    *)
(* drawn from small sets.                                                  *)
(***************************************************************************)
EXTENDS Integers, Sequences, FiniteSets, TLC

VARIABLES
    program,        \* which __main__ this process runs
    pc,             \* "start", "checked" (script only), "serving", "exited"
    environ,        \* os.environ as os.getenv sees it
    argv,           \* sys.argv[1:]
    tools,          \* the tool names registered with FastMCP, in order
    handler,        \* self.mcp.resource_methods_handler is set
    call,           \* the request being answered: name, arguments, the world's answers
    sent,           \* the outbound requests the last call issued, in order
    client_result,  \* what the github_integration function returned (or raised)
    result,         \* what the tool or handler returned to the host (or raised)
    listings,       \* what each resources/list request so far returned, in order
    run_outcome,    \* what self.mcp.run(...) did: not finished, returned or raised
    exit_code       \* the process's exit status once pc = "exited"

vars == <<program, pc, environ, argv, tools, handler, call, sent,
          client_result, result, listings, run_outcome, exit_code>>

-----------------------------------------------------------------------------
(* Python values, tagged with their type.                                  *)

None == [t |-> "None"]
Str(s) == [t |-> "str", v |-> s]
Num(i) == [t |-> "int", v |-> i]
Bool(b) == [t |-> "bool", v |-> b]
List(q) == [t |-> "list", v |-> q]
Dict(f) == [t |-> "dict", v |-> f]

EmptyDict == Dict(<<>>)

\* bool(v): what `if v:` and `not v` test.
Truthy(v) ==
    CASE v.t = "None" -> FALSE
      [] v.t = "bool" -> v.v
      [] v.t = "str"  -> v.v # ""
      [] v.t = "int"  -> v.v # 0
      [] v.t = "list" -> Len(v.v) > 0
      [] v.t = "dict" -> DOMAIN v.v # {}

\* `k in d` for a dict d.
HasKey(d, k) == k \in DOMAIN d.v

\* d.get(k, default) and d.get(k).
GetOr(d, k, default) == IF HasKey(d, k) THEN d.v[k] ELSE default
Get(d, k) == GetOr(d, k, None)

\* What an f-string makes of a value.
Format(v) ==
    CASE v.t = "None" -> "None"
      [] v.t = "str"  -> v.v
      [] v.t = "int"  -> ToString(v.v)
      [] v.t = "bool" -> IF v.v THEN "True" ELSE "False"

\* How a Python call ends.
Return(v) == [kind |-> "return", value |-> v]
Raise(msg) == [kind |-> "raise", exc |-> msg]

NotYet == [kind |-> "none"]

-----------------------------------------------------------------------------
(* The HTTP library as the code uses it.                                   *)

\* An answer of the remote service: a response with a status and a body
\* (what response.json() does with it), or no response at all.
Response(code, body) == [kind |-> "response", status_code |-> code, json |-> body]
TransportError(msg) == [kind |-> "transport", exc |-> msg]

\* response.raise_for_status(): an HTTPError for 4xx and 5xx.
raise_for_status(resp, url) ==
    IF resp.status_code >= 400 /\ resp.status_code < 600
    THEN Raise(ToString(resp.status_code)
               \o (IF resp.status_code < 500 THEN " Client Error" ELSE " Server Error")
               \o " for url: " \o url)
    ELSE Return(None)

\* requests.get/post(url); r.raise_for_status(); r.json() -- the three lines
\* every client function runs inside its try block.
request_json(answer, url) ==
    IF answer.kind = "transport" THEN Raise(answer.exc)
    ELSE IF raise_for_status(answer, url).kind = "raise"
         THEN raise_for_status(answer, url)
         ELSE answer.json

\* The request succeeded as the remote service sees it: a 2xx response.
Succeeded(answer) ==
    answer.kind = "response" /\ answer.status_code >= 200 /\ answer.status_code < 300

-----------------------------------------------------------------------------
(* github_integration.py                                                   *)

\* GITHUB_TOKEN = os.getenv('GITHUB_TOKEN'), read when the module is imported.
GITHUB_TOKEN == environ.GITHUB_TOKEN

ApiRoot == "https://api.github.com/repos/"

\* An outbound request as handed to requests.get / requests.post.
Request(method, url, headers, json) ==
    [method |-> method, url |-> url, headers |-> headers, json |-> json]

\* What a client function did: how it ended and the requests it issued.
Did(out, requests) == [out |-> out, sent |-> requests]

\* The keys fetch_pr_changes reads with file[...], and with file.get(..., '').
RequiredFileKeys == {"filename", "status", "additions", "deletions", "changes"}
OptionalFileKeys == {"patch", "raw_url", "contents_url"}

\* The keys of the summary fetch_pr_changes builds.
SummaryKeys == {"title", "description", "author", "created_at", "updated_at",
                "state", "total_changes", "changes"}

\* The dict built for one entry of files_data; a KeyError when a key read with
\* file[...] is missing.
FileChange(file) ==
    IF file.t # "dict" THEN Raise("string indices must be integers")
    ELSE IF ~(RequiredFileKeys \subseteq DOMAIN file.v)
    THEN Raise("KeyError")
    ELSE Return(Dict([k \in RequiredFileKeys \cup OptionalFileKeys |->
                        IF k \in RequiredFileKeys THEN file.v[k]
                        ELSE GetOr(file, k, Str(""))]))

\* Changes with a file that carries no patch skipped instead of defaulted.
Changes_skipping_unpatched(files_data) ==
    LET Patched(file) == file.t = "dict" /\ HasKey(file, "patch")
        kept == SelectSeq(files_data.v, Patched)
    IN  IF \E i \in 1..Len(kept) : FileChange(kept[i]).kind = "raise"
        THEN Raise("KeyError")
        ELSE Return([i \in 1..Len(kept) |-> FileChange(kept[i]).value])

\* The loop over files_data: changes.append(change) for each file, in order.
Changes(files_data) ==
    IF files_data.t # "list" THEN Raise("not a list of files")
    ELSE IF \E i \in 1..Len(files_data.v) : FileChange(files_data.v[i]).kind = "raise"
    THEN Raise("KeyError")
    ELSE Return([i \in 1..Len(files_data.v) |-> FileChange(files_data.v[i]).value])

\* pr_info, built from pr_data and the changes; a KeyError or TypeError when
\* pr_data lacks a key that is read.
PrInfo(pr_data, changes) ==
    IF pr_data.t # "dict" THEN Raise("TypeError")
    ELSE IF ~({"title", "body", "user", "created_at", "updated_at", "state"}
                \subseteq DOMAIN pr_data.v)
    THEN Raise("KeyError")
    ELSE IF pr_data.v["user"].t # "dict" \/ ~HasKey(pr_data.v["user"], "login")
    THEN Raise("KeyError")
    ELSE Return(Dict([title         |-> pr_data.v["title"],
                      description   |-> pr_data.v["body"],
                      author        |-> pr_data.v["user"].v["login"],
                      created_at    |-> pr_data.v["created_at"],
                      updated_at    |-> pr_data.v["updated_at"],
                      state         |-> pr_data.v["state"],
                      total_changes |-> Num(Len(changes)),
                      changes       |-> List(changes)]))

\* The try block of fetch_pr_changes after both reads: the outcome of lines
\* 40-68, an exception standing for the jump to the except clause.
Summarise(pr_data, files_data) ==
    IF Changes(files_data).kind = "raise" THEN Changes(files_data)
    ELSE PrInfo(pr_data, Changes(files_data).value)

\* fetch_pr_changes with the file-list read outside the try block's protection:
\* when only that read fails, the metadata already fetched is returned.
fetch_pr_changes_partial(repo_owner, repo_name, pr_number, world) ==
    LET pr_url    == ApiRoot \o Format(repo_owner) \o "/" \o Format(repo_name)
                       \o "/pulls/" \o Format(pr_number)
        files_url == pr_url \o "/files"
        headers   == [Authorization |-> "token " \o Format(GITHUB_TOKEN)]
        get_pr    == Request("GET", pr_url, headers, None)
        get_files == Request("GET", files_url, headers, None)
        pr        == request_json(world.http[1], pr_url)
        files     == request_json(world.http[2], files_url)
    IN  IF world.stdout # None THEN Did(Raise(world.stdout.v), <<>>)
        ELSE IF pr.kind = "raise" THEN Did(Return(None), <<get_pr>>)
        ELSE IF files.kind = "raise"
             THEN Did(Return(Dict([title |-> Get(pr.value, "title"),
                                   state |-> Get(pr.value, "state")])),
                      <<get_pr, get_files>>)
        ELSE IF Summarise(pr.value, files.value).kind = "raise"
             THEN Did(Return(None), <<get_pr, get_files>>)
             ELSE Did(Summarise(pr.value, files.value), <<get_pr, get_files>>)

\* fetch_pr_changes issuing both reads before it looks at either answer.
fetch_pr_changes_eager(repo_owner, repo_name, pr_number, world) ==
    LET pr_url    == ApiRoot \o Format(repo_owner) \o "/" \o Format(repo_name)
                       \o "/pulls/" \o Format(pr_number)
        files_url == pr_url \o "/files"
        headers   == [Authorization |-> "token " \o Format(GITHUB_TOKEN)]
        get_pr    == Request("GET", pr_url, headers, None)
        get_files == Request("GET", files_url, headers, None)
        pr        == request_json(world.http[1], pr_url)
        files     == request_json(world.http[2], files_url)
    IN  IF world.stdout # None THEN Did(Raise(world.stdout.v), <<>>)
        ELSE IF pr.kind = "raise" THEN Did(Return(None), <<get_pr, get_files>>)
        ELSE IF files.kind = "raise" THEN Did(Return(None), <<get_pr, get_files>>)
        ELSE IF Summarise(pr.value, files.value).kind = "raise"
             THEN Did(Return(None), <<get_pr, get_files>>)
             ELSE Did(Summarise(pr.value, files.value), <<get_pr, get_files>>)

\* fetch_pr_changes(repo_owner, repo_name, pr_number).  world.stdout is the
\* fault of the print before the try block (None when it prints), world.http
\* the answers to the requests in the order they are issued.
fetch_pr_changes(repo_owner, repo_name, pr_number, world) ==
    LET pr_url    == ApiRoot \o Format(repo_owner) \o "/" \o Format(repo_name)
                       \o "/pulls/" \o Format(pr_number)
        files_url == pr_url \o "/files"
        headers   == [Authorization |-> "token " \o Format(GITHUB_TOKEN)]
        get_pr    == Request("GET", pr_url, headers, None)
        get_files == Request("GET", files_url, headers, None)
        pr        == request_json(world.http[1], pr_url)
        files     == request_json(world.http[2], files_url)
    IN  IF world.stdout # None THEN Did(Raise(world.stdout.v), <<>>)
        ELSE IF pr.kind = "raise" THEN Did(Return(None), <<get_pr>>)
        ELSE IF files.kind = "raise" THEN Did(Return(None), <<get_pr, get_files>>)
        ELSE IF Summarise(pr.value, files.value).kind = "raise"
             THEN Did(Return(None), <<get_pr, get_files>>)
             ELSE Did(Summarise(pr.value, files.value), <<get_pr, get_files>>)

\* The try block shared by the two write functions: post, raise_for_status,
\* json, and the print that calls response_data.get('id').
PostJson(answer, url) ==
    IF request_json(answer, url).kind = "raise"
    THEN Return(Dict([error |-> Str(request_json(answer, url).exc)]))
    ELSE IF request_json(answer, url).value.t # "dict"
    THEN Return(Dict([error |-> Str("'" \o request_json(answer, url).value.t
                                     \o "' object has no attribute 'get'")]))
    ELSE request_json(answer, url)

WriteHeaders ==
    [Authorization |-> "token " \o Format(GITHUB_TOKEN),
     Accept        |-> "application/vnd.github.v3+json"]

\* review_data with the test written `if comments is not None:`.
ReviewData_unless_none(review_body, review_state, comments) ==
    IF comments # None
    THEN Dict([body |-> review_body, event |-> review_state, comments |-> comments])
    ELSE Dict([body |-> review_body, event |-> review_state])

\* review_data: body and event, and comments `if comments:`.
ReviewData(review_body, review_state, comments) ==
    IF Truthy(comments)
    THEN Dict([body |-> review_body, event |-> review_state, comments |-> comments])
    ELSE Dict([body |-> review_body, event |-> review_state])

\* submit_pr_review(repo_owner, repo_name, pr_number, review_body,
\*                  review_state, comments)
submit_pr_review(repo_owner, repo_name, pr_number, review_body, review_state, comments, world) ==
    LET review_url == ApiRoot \o Format(repo_owner) \o "/" \o Format(repo_name)
                        \o "/pulls/" \o Format(pr_number) \o "/reviews"
        post == Request("POST", review_url, WriteHeaders,
                        ReviewData(review_body, review_state, comments))
    IN  IF world.stdout # None THEN Did(Raise(world.stdout.v), <<>>)
        ELSE Did(PostJson(world.http[1], review_url), <<post>>)

\* add_pr_comment without the call of raise_for_status: the body of an error
\* response is parsed and returned like that of a created comment.
add_pr_comment_unchecked(repo_owner, repo_name, pr_number, comment, world) ==
    LET comment_url == ApiRoot \o Format(repo_owner) \o "/" \o Format(repo_name)
                         \o "/issues/" \o Format(pr_number) \o "/comments"
        post == Request("POST", comment_url, WriteHeaders, Dict([body |-> comment]))
        answer == world.http[1]
    IN  IF world.stdout # None THEN Did(Raise(world.stdout.v), <<>>)
        ELSE IF answer.kind = "transport"
        THEN Did(Return(Dict([error |-> Str(answer.exc)])), <<post>>)
        ELSE IF answer.json.kind = "raise"
        THEN Did(Return(Dict([error |-> Str(answer.json.exc)])), <<post>>)
        ELSE IF answer.json.value.t # "dict"
        THEN Did(Return(Dict([error |-> Str("no attribute 'get'")])), <<post>>)
        ELSE Did(answer.json, <<post>>)

\* add_pr_comment(repo_owner, repo_name, pr_number, comment)
add_pr_comment(repo_owner, repo_name, pr_number, comment, world) ==
    LET comment_url == ApiRoot \o Format(repo_owner) \o "/" \o Format(repo_name)
                         \o "/issues/" \o Format(pr_number) \o "/comments"
        post == Request("POST", comment_url, WriteHeaders, Dict([body |-> comment]))
    IN  IF world.stdout # None THEN Did(Raise(world.stdout.v), <<>>)
        ELSE Did(PostJson(world.http[1], comment_url), <<post>>)

-----------------------------------------------------------------------------
(* pr_analyzer.py: startup                                                 *)

\* _init_notion testing the API key alone.
_init_notion_key_only(env) ==
    IF ~Truthy(env.NOTION_API_KEY) THEN "exit" ELSE "ok"

\* _init_notion: "exit" for sys.exit(1) when either variable is missing or
\* empty, "ok" when the Notion client is built.
_init_notion(env) ==
    IF ~Truthy(env.NOTION_API_KEY) \/ ~Truthy(env.NOTION_PAGE_ID)
    THEN "exit"
    ELSE "ok"

\* The tools _register_tools registers, in the order of their decorators.
ToolNames == <<"fetch_pr", "create_notion_page", "submit_pr_review", "add_pr_comment">>

\* The parameters of each tool function and those that have a default.
Signature(tool) ==
    CASE tool = "fetch_pr" ->
           [params |-> <<"repo_owner", "repo_name", "pr_number">>, defaults |-> {}]
      [] tool = "create_notion_page" ->
           [params |-> <<"title", "content">>, defaults |-> {}]
      [] tool = "submit_pr_review" ->
           [params |-> <<"repo_owner", "repo_name", "pr_number", "review_body",
                         "review_state", "comments">>,
            defaults |-> {"review_state", "comments"}]
      [] tool = "add_pr_comment" ->
           [params |-> <<"repo_owner", "repo_name", "pr_number", "comment">>,
            defaults |-> {}]

-----------------------------------------------------------------------------
(* pr_analyzer.py: the tools.  Each yields what it returned to the host     *)
(* (or raised), the requests issued and what the client function did.       *)

Answered(out, c) == [out |-> out, sent |-> c.sent, client |-> c.out]

\* fetch_pr(repo_owner, repo_name, pr_number)
tool_fetch_pr(repo_owner, repo_name, pr_number, world) ==
    LET c == fetch_pr_changes(repo_owner, repo_name, pr_number, world)
    IN  IF c.out.kind = "raise" THEN Answered(Return(EmptyDict), c)
        ELSE IF c.out.value = None THEN Answered(Return(EmptyDict), c)
        ELSE Answered(Return(c.out.value), c)

\* The arguments of self.notion.pages.create(...).
NotionPage(page_id, title, content) ==
    Dict([parent     |-> Dict([type |-> Str("page_id"), page_id |-> page_id]),
          properties |-> Dict([title |-> Dict([title |->
                            List(<<Dict([text |-> Dict([content |-> title])])>>)])]),
          children   |-> List(<<Dict([object    |-> Str("block"),
                                      type      |-> Str("paragraph"),
                                      paragraph |-> Dict([rich_text |-> List(<<
                                          Dict([type |-> Str("text"),
                                                text |-> Dict([content |-> content])])
                                        >>)])])>>)])

\* create_notion_page(title, content); world.notion is how pages.create ends.
tool_create_notion_page(title, content, world) ==
    LET create == Request("POST", "notion.pages.create", [auth |-> Format(environ.NOTION_API_KEY)], NotionPage(environ.NOTION_PAGE_ID, title, content))
        c == Did(world.notion, <<create>>)
    IN  IF world.notion.kind = "raise"
        THEN Answered(Return(Str("Error creating Notion page: " \o world.notion.exc)), c)
        ELSE Answered(Return(Str("Notion page '" \o Format(title)
                                   \o "' created successfully!")), c)

\* The submit_pr_review tool without its try/except: what the client function
\* raises reaches the host.
tool_submit_pr_review_unguarded(repo_owner, repo_name, pr_number, review_body, review_state, comments, world) ==
    LET c == submit_pr_review(repo_owner, repo_name, pr_number, review_body,
                              review_state, comments, world)
    IN  IF c.out.kind = "raise" THEN Answered(c.out, c)
        ELSE IF HasKey(c.out.value, "error")
        THEN Answered(Return(Dict([success |-> Bool(FALSE),
                                   error   |-> c.out.value.v["error"]])), c)
        ELSE Answered(Return(Dict([success    |-> Bool(TRUE),
                                   review_id  |-> Get(c.out.value, "id"),
                                   review_url |-> Get(c.out.value, "html_url")])), c)

\* The submit_pr_review tool reading the review's API url instead of html_url.
tool_submit_pr_review_api_url(repo_owner, repo_name, pr_number, review_body, review_state, comments, world) ==
    LET c == submit_pr_review(repo_owner, repo_name, pr_number, review_body,
                              review_state, comments, world)
    IN  IF c.out.kind = "raise"
        THEN Answered(Return(Dict([success |-> Bool(FALSE),
                                   error   |-> Str(c.out.exc)])), c)
        ELSE IF HasKey(c.out.value, "error")
        THEN Answered(Return(Dict([success |-> Bool(FALSE),
                                   error   |-> c.out.value.v["error"]])), c)
        ELSE Answered(Return(Dict([success    |-> Bool(TRUE),
                                   review_id  |-> Get(c.out.value, "id"),
                                   review_url |-> Get(c.out.value, "url")])), c)

\* submit_pr_review(repo_owner, repo_name, pr_number, review_body,
\*                  review_state, comments), the tool of that name
tool_submit_pr_review(repo_owner, repo_name, pr_number, review_body, review_state, comments, world) ==
    LET c == submit_pr_review(repo_owner, repo_name, pr_number, review_body,
                              review_state, comments, world)
    IN  IF c.out.kind = "raise"
        THEN Answered(Return(Dict([success |-> Bool(FALSE),
                                   error   |-> Str(c.out.exc)])), c)
        ELSE IF HasKey(c.out.value, "error")
        THEN Answered(Return(Dict([success |-> Bool(FALSE),
                                   error   |-> c.out.value.v["error"]])), c)
        ELSE Answered(Return(Dict([success    |-> Bool(TRUE),
                                   review_id  |-> Get(c.out.value, "id"),
                                   review_url |-> Get(c.out.value, "html_url")])), c)

\* add_pr_comment(repo_owner, repo_name, pr_number, comment), the tool of
\* that name
tool_add_pr_comment(repo_owner, repo_name, pr_number, comment, world) ==
    LET c == add_pr_comment(repo_owner, repo_name, pr_number, comment, world)
    IN  IF c.out.kind = "raise"
        THEN Answered(Return(Dict([success |-> Bool(FALSE),
                                   error   |-> Str(c.out.exc)])), c)
        ELSE IF HasKey(c.out.value, "error")
        THEN Answered(Return(Dict([success |-> Bool(FALSE),
                                   error   |-> c.out.value.v["error"]])), c)
        ELSE Answered(Return(Dict([success     |-> Bool(TRUE),
                                   comment_id  |-> Get(c.out.value, "id"),
                                   comment_url |-> Get(c.out.value, "html_url")])), c)

-----------------------------------------------------------------------------
(* pr_analyzer.py: _handle_resource_methods                                *)

TypeOf(type) == Dict([type |-> Str(type)])

Names(q) == List([i \in 1..Len(q) |-> Str(q[i])])

Parameters(properties, required) ==
    Dict([type       |-> Str("object"),
          properties |-> Dict(properties),
          required   |-> Names(required)])

Tool(name, description, parameters) ==
    Dict([name |-> Str(name), description |-> Str(description),
          parameters |-> parameters])

\* The literal returned for "resources/list".
ResourcesList ==
    Dict([resources |-> List(<<
      Dict([name        |-> Str("github_pr"),
            description |-> Str("GitHub PR Analysis tools"),
            tools       |-> List(<<
        Tool("fetch_pr", "Fetch changes from a GitHub pull request",
             Parameters([repo_owner |-> TypeOf("string"),
                         repo_name  |-> TypeOf("string"),
                         pr_number  |-> TypeOf("integer")],
                        <<"repo_owner", "repo_name", "pr_number">>)),
        Tool("create_notion_page", "Create a Notion page with PR analysis",
             Parameters([title   |-> TypeOf("string"),
                         content |-> TypeOf("string")],
                        <<"title", "content">>)),
        Tool("submit_pr_review", "Submit a review to a GitHub pull request",
             Parameters([repo_owner   |-> TypeOf("string"),
                         repo_name    |-> TypeOf("string"),
                         pr_number    |-> TypeOf("integer"),
                         review_body  |-> TypeOf("string"),
                         review_state |-> Dict([type    |-> Str("string"),
                                                enum    |-> Names(<<"COMMENT", "APPROVE",
                                                                    "REQUEST_CHANGES">>),
                                                default |-> Str("COMMENT")]),
                         comments     |-> Dict([type  |-> Str("array"),
                                                items |-> Dict([
                                                  type       |-> Str("object"),
                                                  properties |-> Dict([
                                                    path     |-> TypeOf("string"),
                                                    position |-> TypeOf("integer"),
                                                    body     |-> TypeOf("string")])])])],
                        <<"repo_owner", "repo_name", "pr_number", "review_body">>)),
        Tool("add_pr_comment", "Add a comment to a GitHub pull request",
             Parameters([repo_owner |-> TypeOf("string"),
                         repo_name  |-> TypeOf("string"),
                         pr_number  |-> TypeOf("integer"),
                         comment    |-> TypeOf("string")],
                        <<"repo_owner", "repo_name", "pr_number", "comment">>))
        >>)])
      >>)])

\* The handler raising for a method it does not know.
_handle_resource_methods_raising(method, params) ==
    IF method = "resources/list" THEN Return(ResourcesList)
    ELSE Raise("Unknown resource method: " \o method)

\* The handler treating params as a page cursor: a request that carries one
\* is answered with an empty page.
_handle_resource_methods_paging(method, params) ==
    IF method = "resources/list"
    THEN IF Truthy(params)
         THEN Return(Dict([resources |-> List(<<
                Dict([name        |-> Str("github_pr"),
                      description |-> Str("GitHub PR Analysis tools"),
                      tools       |-> List(<<>>)])>>)]))
         ELSE Return(ResourcesList)
    ELSE Return(EmptyDict)

\* _handle_resource_methods(method, params)
_handle_resource_methods(method, params) ==
    IF method = "resources/list" THEN Return(ResourcesList) ELSE Return(EmptyDict)

-----------------------------------------------------------------------------
(* Bounds and the inputs drawn within them.                                *)

MaxFiles == 2
MaxListings == 2

SeqsUpTo(S, n) == UNION {[1..k -> S] : k \in 0..n}

Programs == {"pr_analyzer", "test_pr_review"}

Environments ==
    [NOTION_API_KEY : {None, Str(""), Str("secret_key")},
     NOTION_PAGE_ID : {None, Str(""), Str("page-1")},
     GITHUB_TOKEN   : {None, Str("ghp_token")}]

Arguments == {<<>>, <<"--review">>, <<"--verbose">>}

StdoutFault == Str("[Errno 32] Broken pipe")
NotJson == Raise("Expecting value: line 1 column 1 (char 0)")
Refused == TransportError("Connection refused")

\* Answers of the review and issue-comment endpoints.
PostAnswers ==
    { Response(201, Return(Dict([id |-> Num(99), html_url |-> Str("http://x")]))),
      Response(200, Return(Dict([id |-> Num(7)]))),
      Response(201, Return(List(<<>>))),
      Response(200, NotJson),
      Response(422, Return(Dict([message |-> Str("Validation Failed")]))),
      Response(500, NotJson),
      Refused }

\* A world with no fault on stdout and the given answers, and the world in
\* which the first print fails and nothing is asked.
Quiet(answers) == [stdout |-> None, http |-> answers]
BrokenStdout == [stdout |-> StdoutFault, http |-> <<>>]

PostWorlds == {BrokenStdout} \cup {Quiet(<<a>>) : a \in PostAnswers}

PrData(body) ==
    Dict([title |-> Str("Add widget"), body |-> body,
          user |-> Dict([login |-> Str("octocat")]),
          created_at |-> Str("2024-01-01T00:00:00Z"),
          updated_at |-> Str("2024-01-02T00:00:00Z"),
          state |-> Str("open")])

PrAnswersOk ==
    { Response(200, Return(PrData(Str("Adds a widget")))),
      Response(200, Return(PrData(None))),
      Response(200, Return(Dict([title |-> Str("Add widget")]))) }

ReadFailures ==
    { Response(404, Return(Dict([message |-> Str("Not Found")]))),
      Response(500, NotJson),
      Response(200, NotJson),
      Refused }

FileEntries ==
    { Dict([filename |-> Str("a.py"), status |-> Str("modified"),
            additions |-> Num(3), deletions |-> Num(1), changes |-> Num(4)]),
      Dict([filename |-> Str("b.py"), status |-> Str("added"),
            additions |-> Num(2), deletions |-> Num(0), changes |-> Num(2),
            patch |-> Str("@@ -0,0 +1,2 @@"), raw_url |-> Str("http://raw/b.py"),
            contents_url |-> Str("http://contents/b.py")]),
      Dict([status |-> Str("removed"), additions |-> Num(0),
            deletions |-> Num(5), changes |-> Num(5)]) }

FileAnswers ==
    {Response(200, Return(List(files))) : files \in SeqsUpTo(FileEntries, MaxFiles)}
      \cup ReadFailures

\* The second read is issued only when the first one gave pr_data.
FetchWorlds ==
    {BrokenStdout} \cup {Quiet(<<a>>) : a \in ReadFailures}
      \cup {Quiet(<<a, b>>) : a \in PrAnswersOk, b \in FileAnswers}

NotionWorlds ==
    { [notion |-> Return(None)],
      [notion |-> Raise("API token is invalid.")],
      [notion |-> Raise("Connection refused")] }

Owners == {Str("octo")}
Repos == {Str("widgets")}
PrNumbers == {Num(42), Num(2)}
Texts == {Str("LGTM")}
Titles == {Str("PR 42"), Str("")}
ReviewStates == {Str("COMMENT"), Str("APPROVE"), Str("REQUEST_CHANGES")}

Nit == Dict([path |-> Str("a.py"), position |-> Num(1), body |-> Str("nit")])
Typo == Dict([path |-> Str("b.py"), position |-> Num(3), body |-> Str("typo")])

\* comments: omitted (None), empty, and lists whose order can be told apart.
CommentLists ==
    {None, List(<<>>), List(<<Nit>>), List(<<Nit, Typo>>), List(<<Typo, Nit>>)}

Methods == {"resources/list", "resources/read", "tools/call", "fetch_pr"}
ParamMaps == {EmptyDict, Dict([cursor |-> Str("next")])}

-----------------------------------------------------------------------------
(* test_pr_review.py                                                       *)

TestOwner == Str("seaworld0125")
TestRepo == Str("mcp-pr-reviewer")
TestPr == Num(2)
TestComment == Str("## Test Comment from PR Reviewer")
TestReview == Str("## Test Review from PR Reviewer")

\* test_add_pr_comment(): the value of add_pr_comment, returned as it is.
test_add_pr_comment(world) ==
    add_pr_comment(TestOwner, TestRepo, TestPr, TestComment, world)

\* test_submit_pr_review(): review_state and comments take their defaults.
test_submit_pr_review(world) ==
    submit_pr_review(TestOwner, TestRepo, TestPr, TestReview, Str("COMMENT"), None, world)

\* sys.exit(0 if test_result.get("success") else 1); an exception that nothing
\* catches ends the interpreter with status 1.
script_exit(test_result) ==
    IF test_result.kind = "raise" THEN Num(1)
    ELSE IF Truthy(Get(test_result.value, "success")) THEN Num(0) ELSE Num(1)

-----------------------------------------------------------------------------
(* The state machine.                                                      *)

NoCall == [name |-> "none"]

\* The server is started with the GitHub token set: without it every request
\* is answered 401, one of the failed answers.
Init ==
    /\ program \in Programs
    /\ pc = "start"
    /\ environ \in Environments
    /\ program = "pr_analyzer" => Truthy(environ.GITHUB_TOKEN)
    /\ argv \in (IF program = "test_pr_review" THEN Arguments ELSE {<<>>})
    /\ tools = <<>>
    /\ handler = FALSE
    /\ call = NoCall
    /\ sent = <<>>
    /\ client_result = NotYet
    /\ result = NotYet
    /\ listings = <<>>
    /\ run_outcome = NotYet
    /\ exit_code = None

\* PRAnalyzer.__init__ up to the server loop of run(): _init_notion, then
\* _register_tools, then the resource-method handler.
PRAnalyzer_init ==
    /\ program = "pr_analyzer"
    /\ pc = "start"
    /\ IF _init_notion(environ) = "exit"
       THEN /\ pc' = "exited"
            /\ exit_code' = Num(1)
            /\ UNCHANGED <<tools, handler>>
       ELSE /\ pc' = "serving"
            /\ tools' = ToolNames
            /\ handler' = TRUE
            /\ UNCHANGED exit_code
    /\ UNCHANGED <<program, environ, argv, call, sent, client_result, result,
                   listings, run_outcome>>

Registered(name) == \E i \in 1..Len(tools) : tools[i] = name

\* The host's request `name` with `args` is answered with `a`.
Serve(name, args, world, a) ==
    /\ pc = "serving"
    /\ Registered(name)
    /\ call' = [name |-> name, args |-> args, world |-> world]
    /\ sent' = a.sent
    /\ client_result' = a.client
    /\ result' = a.out
    /\ UNCHANGED <<program, pc, environ, argv, tools, handler, listings,
                   run_outcome, exit_code>>

FetchPr ==
    \E repo_owner \in Owners, repo_name \in Repos, pr_number \in PrNumbers,
       world \in FetchWorlds :
        Serve("fetch_pr",
              [repo_owner |-> repo_owner, repo_name |-> repo_name,
               pr_number |-> pr_number],
              world, tool_fetch_pr(repo_owner, repo_name, pr_number, world))

CreateNotionPage ==
    \E title \in Titles, content \in Texts, world \in NotionWorlds :
        Serve("create_notion_page", [title |-> title, content |-> content],
              world, tool_create_notion_page(title, content, world))

SubmitPrReview ==
    \E repo_owner \in Owners, repo_name \in Repos, pr_number \in PrNumbers,
       review_body \in Texts, review_state \in ReviewStates,
       comments \in CommentLists, world \in PostWorlds :
        Serve("submit_pr_review",
              [repo_owner |-> repo_owner, repo_name |-> repo_name,
               pr_number |-> pr_number, review_body |-> review_body,
               review_state |-> review_state, comments |-> comments],
              world,
              tool_submit_pr_review(repo_owner, repo_name, pr_number, review_body,
                                    review_state, comments, world))

AddPrComment ==
    \E repo_owner \in Owners, repo_name \in Repos, pr_number \in PrNumbers,
       comment \in Texts, world \in PostWorlds :
        Serve("add_pr_comment",
              [repo_owner |-> repo_owner, repo_name |-> repo_name,
               pr_number |-> pr_number, comment |-> comment],
              world,
              tool_add_pr_comment(repo_owner, repo_name, pr_number, comment, world))

\* A resource-method request reaches the handler set in __init__.
HandleResourceMethods ==
    /\ pc = "serving"
    /\ handler
    /\ \E method \in Methods, params \in ParamMaps :
        /\ method = "resources/list" => Len(listings) < MaxListings
        /\ call' = [name |-> "_handle_resource_methods",
                    args |-> [method |-> method, params |-> params]]
        /\ result' = _handle_resource_methods(method, params)
        /\ listings' = IF method = "resources/list"
                       THEN Append(listings, _handle_resource_methods(method, params))
                       ELSE listings
    /\ sent' = <<>>
    /\ client_result' = NotYet
    /\ UNCHANGED <<program, pc, environ, argv, tools, handler, run_outcome, exit_code>>

\* run(): the exit status once self.mcp.run(transport="stdio") has ended.
run(outcome) == IF outcome.kind = "raise" THEN Num(1) ELSE Num(0)

RunOutcomes == {Return(None), Raise("Broken pipe on stdio")}

\* The server loop ends: it returns when the host closes the stream, or raises.
RunEnds ==
    /\ program = "pr_analyzer"
    /\ pc = "serving"
    /\ \E outcome \in RunOutcomes :
        /\ run_outcome' = outcome
        /\ exit_code' = run(outcome)
    /\ pc' = "exited"
    /\ UNCHANGED <<program, environ, argv, tools, handler, call, sent,
                   client_result, result, listings>>

\* test_pr_review.py's __main__: the token check, one test, sys.exit.
TestPrReviewMain ==
    /\ program = "test_pr_review"
    /\ pc = "start"
    /\ pc' = "exited"
    /\ IF ~Truthy(environ.GITHUB_TOKEN)
       THEN /\ exit_code' = Num(1)
            /\ UNCHANGED <<call, sent, client_result, result>>
       ELSE \E world \in PostWorlds :
              LET review == Len(argv) > 0 /\ argv[1] = "--review"
                  c == IF review THEN test_submit_pr_review(world)
                       ELSE test_add_pr_comment(world)
              IN  /\ call' = [name |-> IF review THEN "test_submit_pr_review"
                                       ELSE "test_add_pr_comment",
                              world |-> world]
                  /\ sent' = c.sent
                  /\ client_result' = c.out
                  /\ result' = c.out
                  /\ exit_code' = script_exit(c.out)
    /\ UNCHANGED <<program, environ, argv, tools, handler, listings, run_outcome>>

Next ==
    \/ PRAnalyzer_init
    \/ FetchPr
    \/ CreateNotionPage
    \/ SubmitPrReview
    \/ AddPrComment
    \/ HandleResourceMethods
    \/ RunEnds
    \/ TestPrReviewMain

Spec == Init /\ [][Next]_vars

-----------------------------------------------------------------------------
(* Properties.                                                             *)

\* The remote call got no 2xx response: another status, or no response.
Failed(answer) == ~Succeeded(answer)

\* The state answers a call of the named tool or script test.
Answers(name) == call.name = name

\* The file entries the remote API returned to the last fetch_pr call.
ReturnedFiles == call.world.http[2].json.value.v

\* fetch_pr_changes returned a summary.
FetchedSummary ==
    /\ Answers("fetch_pr")
    /\ client_result.kind = "return"
    /\ client_result.value # None

\* C1: whenever fetch_pr_changes returns a summary, total_changes is the
\* length of changes, and changes holds one FileChange per file entry the API
\* returned, in the same order (the keys read with file[...] copied, the
\* optional ones defaulted to '').
C1_TotalChangesIsOnePerFile ==
    FetchedSummary =>
        LET summary == client_result.value.v
        IN  /\ summary.total_changes = Num(Len(summary.changes.v))
            /\ Len(summary.changes.v) = Len(ReturnedFiles)
            /\ \A i \in 1..Len(ReturnedFiles) :
                 /\ \A k \in RequiredFileKeys :
                      summary.changes.v[i].v[k] = ReturnedFiles[i].v[k]
                 /\ \A k \in OptionalFileKeys :
                      summary.changes.v[i].v[k] = GetOr(ReturnedFiles[i], k, Str(""))

\* A summary built from two different files, one of them without a patch.
C1_Witness ==
    /\ FetchedSummary
    /\ Len(ReturnedFiles) = 2
    /\ client_result.value.v.total_changes = Num(2)
    /\ client_result.value.v.changes.v[1].v["filename"] = Str("b.py")
    /\ client_result.value.v.changes.v[2].v["filename"] = Str("a.py")
    /\ client_result.value.v.changes.v[2].v["patch"] = Str("")

\* One of the reads fetch_pr issued failed.
AReadFailed ==
    /\ Answers("fetch_pr")
    /\ call.world.stdout = None
    /\ \E i \in 1..Len(call.world.http) : Failed(call.world.http[i])

\* C2: when the metadata read or the file-list read fails, fetch_pr_changes
\* returns None and the fetch_pr tool returns {}; and whatever happened, the
\* tool's result is {} or a summary with every key, changes included.
C2_FailedReadGivesNoSummary ==
    /\ AReadFailed => client_result = Return(None) /\ result = Return(EmptyDict)
    /\ Answers("fetch_pr") =>
         /\ result.kind = "return"
         /\ result.value.t = "dict"
         /\ DOMAIN result.value.v \in {{}, SummaryKeys}

\* The metadata read succeeded, the file-list read failed, and the tool
\* returned {}.
C2_Witness ==
    /\ AReadFailed
    /\ Len(call.world.http) = 2
    /\ Succeeded(call.world.http[1])
    /\ Failed(call.world.http[2])
    /\ Len(sent) = 2
    /\ result = Return(EmptyDict)

\* The one answer the remote service gave to the last write call.
TheAnswer == call.world.http[1]

\* The JSON body handed to the last write call's POST.
Payload == sent[1].json.v

NonEmptyList(v) == v.t = "list" /\ Len(v.v) > 0

\* C3: the payload submit_pr_review posts has a comments field exactly when
\* the comments argument is a non-empty list; then the field is that list as
\* given, otherwise the payload's keys are body and event alone; body and
\* event are always the review_body and review_state arguments.
C3_CommentsInPayloadIffNonEmpty ==
    (Answers("submit_pr_review") /\ Len(sent) = 1) =>
        /\ ("comments" \in DOMAIN Payload) <=> NonEmptyList(call.args.comments)
        /\ NonEmptyList(call.args.comments) => Payload["comments"] = call.args.comments
        /\ ~NonEmptyList(call.args.comments) => DOMAIN Payload = {"body", "event"}
        /\ Payload["body"] = call.args.review_body
        /\ Payload["event"] = call.args.review_state

\* A review posted with two comments, in the order given.
C3_Witness ==
    /\ Answers("submit_pr_review")
    /\ Len(sent) = 1
    /\ call.args.comments = List(<<Typo, Nit>>)
    /\ sent[1].method = "POST"
    /\ Payload["comments"] = List(<<Typo, Nit>>)

FailureEnvelope(msg) == Return(Dict([success |-> Bool(FALSE), error |-> msg]))

ReviewCreated ==
    /\ Answers("submit_pr_review")
    /\ call.world.stdout = None
    /\ Succeeded(TheAnswer)
    /\ TheAnswer.json.kind = "return"
    /\ TheAnswer.json.value.t = "dict"
    /\ DOMAIN TheAnswer.json.value.v = {"id", "html_url"}

ScriptRan == program = "test_pr_review" /\ pc = "exited" /\ call # NoCall
Posted == call.world.stdout = None /\ Succeeded(TheAnswer)

\* C7: the value the script gets from add_pr_comment / submit_pr_review has a
\* truthy success field exactly when the comment or review was posted, and
\* the script exits with status 0 exactly then.
C7_ScriptExitsZeroIffPosted ==
    ScriptRan =>
        /\ client_result.kind = "return" =>
             (Truthy(Get(client_result.value, "success")) <=> Posted)
        /\ exit_code = Num(0) <=> Posted

\* C7, what the code does instead: neither return value of the client functions
\* has a success key, so the script always exits with status 1.
C7_ScriptAlwaysExitsOne ==
    ScriptRan =>
        /\ client_result.kind = "return" => ~HasKey(client_result.value, "success")
        /\ exit_code = Num(1)

KnownOperations ==
    {"resources/list", "fetch_pr", "create_notion_page", "submit_pr_review",
     "add_pr_comment"}

HandledMethod(method) ==
    Answers("_handle_resource_methods") /\ call.args.method = method

\* C8: a method name the handler does not know is answered with {} and
\* nothing is raised, whatever the name and the params (names of tools, which
\* are no resource methods, included).
C8_UnknownMethodGivesEmpty ==
    (Answers("_handle_resource_methods") /\ call.args.method # "resources/list") =>
        result = Return(EmptyDict)

\* An unknown method with a non-empty params mapping was answered {}.
C8_Witness ==
    /\ HandledMethod("tools/call")
    /\ call.args.method \notin KnownOperations
    /\ Truthy(call.args.params)
    /\ result = Return(EmptyDict)

\* The tool descriptors of a listing, and the parameters of a tool function
\* that have no default.
ListedTools(listing) == listing.v["resources"].v[1].v["tools"].v
Required(tool) ==
    LET NoDefault(p) == p \notin Signature(tool).defaults
    IN  SelectSeq(Signature(tool).params, NoDefault)

\* C9: every resources/list request returns the same value, whatever was
\* requested or invoked before it and whatever its params; the value names the
\* registered tools, in order, each with the parameters its function requires.
C9_ListingIsAlwaysTheSame ==
    /\ \A i, j \in 1..Len(listings) : listings[i] = listings[j]
    /\ HandledMethod("resources/list")
         => Len(listings) > 0 /\ result = listings[Len(listings)]
    /\ \A i \in 1..Len(listings) :
         /\ listings[i].kind = "return"
         /\ Len(ListedTools(listings[i].value)) = Len(tools)
         /\ \A k \in 1..Len(tools) :
              /\ ListedTools(listings[i].value)[k].v["name"] = Str(tools[k])
              /\ ListedTools(listings[i].value)[k].v["parameters"].v["required"]
                   = Names(Required(tools[k]))

\* Two listings were returned, the second to a request with params, and a
\* failed tool invocation is the last thing the server answered.
C9_Witness ==
    /\ Len(listings) = 2
    /\ listings[1] = listings[2]
    /\ Answers("add_pr_comment")
    /\ result.value.v["success"] = Bool(FALSE)

ConfigPresent ==
    /\ environ.NOTION_API_KEY \notin {None, Str("")}
    /\ environ.NOTION_PAGE_ID \notin {None, Str("")}

ServerExitedWith(code) ==
    program = "pr_analyzer" /\ pc = "exited" /\ exit_code = Num(code)

\* C10 as stated: the server process ends with an error status only through
\* the startup configuration check.
C10_OnlyStartupCheckTerminates ==
    ServerExitedWith(1) => (~ConfigPresent /\ tools = <<>>)

\* A request was answered in this step.
Answering == call' # call \/ result' # result \/ listings' # listings

\* C10 as the code has it: the server exits with an error status at startup,
\* when the API key or the page id is missing or empty and before any tool is
\* registered, or when the server loop raises out of mcp.run; it is serving
\* only with both present, and no tool invocation or resource-method request,
\* whatever its outcome, ends the process.
C10_ExitsAtStartupOrWhenServerLoopRaises ==
    /\ [](program = "pr_analyzer" =>
            /\ (pc = "serving" \/ tools # <<>> \/ handler) => ConfigPresent
            /\ (pc = "start" /\ ~ConfigPresent) => tools = <<>>
            /\ ServerExitedWith(1) =>
                 \/ ~ConfigPresent /\ tools = <<>> /\ call = NoCall
                 \/ run_outcome.kind = "raise"
            /\ ServerExitedWith(0) => run_outcome = Return(None))
    /\ [][(program = "pr_analyzer" /\ Answering)
            => (pc = "serving" /\ pc' = "serving" /\ exit_code' = None)]_vars
    /\ [][(program = "pr_analyzer" /\ pc = "start" /\ ~ConfigPresent)
            => (pc' = "exited" /\ exit_code' = Num(1))]_vars

\* The server loop raised after a tool invocation had failed, and only then
\* did the process exit with status 1.
C10_Witness ==
    /\ ServerExitedWith(1)
    /\ ConfigPresent
    /\ run_outcome.kind = "raise"
    /\ Answers("fetch_pr")
    /\ result = Return(EmptyDict)

WriteTools == {"submit_pr_review", "add_pr_comment"}

\* The URL of the pull request the last fetch_pr call names.
PrUrl ==
    ApiRoot \o Format(call.args.repo_owner) \o "/" \o Format(call.args.repo_name)
      \o "/pulls/" \o Format(call.args.pr_number)

\* What fetch_pr issues: the metadata read first, the file-list read second
\* and only when the metadata read was answered 2xx, nothing after that.
FetchReadsInOrder ==
    Answers("fetch_pr") =>
        /\ Len(sent) <= 2
        /\ Len(sent) >= 1 => (sent[1].method = "GET" /\ sent[1].url = PrUrl)
        /\ Len(sent) = 2 =>
             /\ Succeeded(call.world.http[1])
             /\ sent[2].method = "GET"
             /\ sent[2].url = PrUrl \o "/files"
        /\ (Len(call.world.http) >= 1 /\ Failed(call.world.http[1])) => Len(sent) = 1

\* No request is issued again: the requests of one invocation differ from one
\* another, there are no more of them than answers, and every request but
\* the last was answered 2xx.
NothingReissued ==
    call.name \in {"fetch_pr"} \cup WriteTools =>
        /\ \A i, j \in 1..Len(sent) : sent[i] = sent[j] => i = j
        /\ Len(sent) <= Len(call.world.http)
        /\ \A i \in 1..(Len(sent) - 1) : Succeeded(call.world.http[i])

====
